---------------------------- MODULE Spec2Model ----------------------------
(***************************************************************************)
(* thundery: a command-line weather report (src/main.rs).                  *)
(*                                                                         *)
(* One invocation is read_config() followed by the body of main(): one     *)
(* blocking HTTP GET, the extraction of five JSON fields, the conversion   *)
(* of the sunrise/sunset timestamps and the rendering of one of six        *)
(* templates.  Several invocations share one config file.                  *)
(*                                                                         *)
(* Conventions.  A TOML value, a JSON value and the text of the config     *)
(* file are records of a fixed shape (a tag and one payload field per      *)
(* type), so that values of different types can be compared.  A Unix       *)
(* timestamp t is kept as the pair (d, s) with t = 86400*d + s and         *)
(* 0 <= s < 86400, which keeps chrono's range (about 8.2e12 seconds)       *)
(* inside the integers of the model checker.  A JSON number is kept in     *)
(* thousandths.  The characters U+00B0, U+2012, U+02BB and U+201A of the   *)
(* source are written "<deg>", "-", "'" and "," here.                      *)
(***************************************************************************)
EXTENDS Integers, Sequences, FiniteSets, TLC

VARIABLES
    disk,        \* the config file: absent, or its text
    provider,    \* what the network and the weather API will answer
    colorize,    \* colored's SHOULD_COLORIZE (terminal / environment)
    concurrent,  \* whether the user launches invocations while one is running
    launches,    \* how many invocations the user launches
    orig,        \* the config file before the first invocation (history)
    overlap,     \* two invocations have been running at once (history)
    pc,          \* per invocation: the position in read_config / main
    content,     \* per invocation: config_content, the text read
    config,      \* per invocation: the Config read_config returns
    loc,         \* per invocation: the locals of main
    stdout,      \* per invocation: the lines printed to standard output
    stderr,      \* per invocation: the lines printed to standard error
    log          \* per invocation: the events so far, in order (history)

vars == <<disk, provider, colorize, concurrent, launches, orig, overlap,
          pc, content, config, loc, stdout, stderr, log>>

(***************************************************************************)
(* Bounds.                                                                 *)
(***************************************************************************)
NumRuns == 2

Procs == 1..NumRuns

(***************************************************************************)
(* The Config record and its defaults.                                     *)
(***************************************************************************)
StrKeys == {"api_key", "city", "units", "timeformat"}

IntKeys == {"timeplus", "timeminus"}

BoolKeys == {"showcityname", "showdate", "use_colors"}

Keys == StrKeys \cup IntKeys \cup BoolKeys

\* a key the program does not know
OtherKeys == {"theme"}

AllKeys == Keys \cup OtherKeys

DefaultConfig ==
    [api_key |-> "", city |-> "", units |-> "metric",
     timeplus |-> 0, timeminus |-> 0,
     showcityname |-> FALSE, showdate |-> FALSE,
     timeformat |-> "24", use_colors |-> FALSE]

(***************************************************************************)
(* TOML values (toml::Value) and documents.                                *)
(***************************************************************************)
NoVal == [t |-> "none", s |-> "", i |-> 0, b |-> FALSE]

TStr(x) == [t |-> "str", s |-> x, i |-> 0, b |-> FALSE]

TInt(n) == [t |-> "int", s |-> "", i |-> n, b |-> FALSE]

TBool(x) == [t |-> "bool", s |-> "", i |-> 0, b |-> x]

TFloat(n) == [t |-> "float", s |-> "", i |-> n, b |-> FALSE]

EmptyDoc == [k \in AllKeys |-> NoVal]

\* the file's text: a TOML document, or text that is not TOML
Absent == [kind |-> "absent", doc |-> EmptyDoc]

Garbage == [kind |-> "garbage", doc |-> EmptyDoc]

Doc(d) == [kind |-> "doc", doc |-> d]

\* File::create leaves an empty file, which is the empty TOML table
EmptyFile == Doc(EmptyDoc)

ExpectedType(k) ==
    IF k \in StrKeys THEN "str" ELSE IF k \in IntKeys THEN "int" ELSE "bool"

\* toml::to_string(&config)
Serialize(c) ==
    [k \in AllKeys |->
        CASE k = "api_key" -> TStr(c.api_key)
          [] k = "city" -> TStr(c.city)
          [] k = "units" -> TStr(c.units)
          [] k = "timeplus" -> TInt(c.timeplus)
          [] k = "timeminus" -> TInt(c.timeminus)
          [] k = "showcityname" -> TBool(c.showcityname)
          [] k = "showdate" -> TBool(c.showdate)
          [] k = "timeformat" -> TStr(c.timeformat)
          [] k = "use_colors" -> TBool(c.use_colors)
          [] OTHER -> NoVal]

\* toml::from_str::<Config>: every field present with its type; other keys ignored
StrictOk(text) ==
    /\ text.kind = "doc"
    /\ \A k \in Keys : text.doc[k].t = ExpectedType(k)

StrictConfig(text) ==
    [api_key |-> text.doc["api_key"].s,
     city |-> text.doc["city"].s,
     units |-> text.doc["units"].s,
     timeplus |-> text.doc["timeplus"].i,
     timeminus |-> text.doc["timeminus"].i,
     showcityname |-> text.doc["showcityname"].b,
     showdate |-> text.doc["showdate"].b,
     timeformat |-> text.doc["timeformat"].s,
     use_colors |-> text.doc["use_colors"].b]

\* toml::from_str::<toml::Value>
LooseOk(text) == text.kind = "doc"

\* the match of the merge loop: as_str / as_integer / as_bool per recognized key
MergeStr(d, k, dflt) == IF d[k].t = "str" THEN d[k].s ELSE dflt

MergeInt(d, k, dflt) == IF d[k].t = "int" THEN d[k].i ELSE dflt

MergeBool(d, k, dflt) == IF d[k].t = "bool" THEN d[k].b ELSE dflt

\* a slip in the merge loop: the "timeplus" arm reads the "timeminus" key
MergeCrossed(d) ==
    [api_key |-> MergeStr(d, "api_key", DefaultConfig.api_key),
     city |-> MergeStr(d, "city", DefaultConfig.city),
     units |-> MergeStr(d, "units", DefaultConfig.units),
     timeplus |-> MergeInt(d, "timeminus", DefaultConfig.timeplus),
     timeminus |-> MergeInt(d, "timeminus", DefaultConfig.timeminus),
     showcityname |-> MergeBool(d, "showcityname", DefaultConfig.showcityname),
     showdate |-> MergeBool(d, "showdate", DefaultConfig.showdate),
     timeformat |-> MergeStr(d, "timeformat", DefaultConfig.timeformat),
     use_colors |-> MergeBool(d, "use_colors", DefaultConfig.use_colors)]

Merge(d) ==
    [api_key |-> MergeStr(d, "api_key", DefaultConfig.api_key),
     city |-> MergeStr(d, "city", DefaultConfig.city),
     units |-> MergeStr(d, "units", DefaultConfig.units),
     timeplus |-> MergeInt(d, "timeplus", DefaultConfig.timeplus),
     timeminus |-> MergeInt(d, "timeminus", DefaultConfig.timeminus),
     showcityname |-> MergeBool(d, "showcityname", DefaultConfig.showcityname),
     showdate |-> MergeBool(d, "showdate", DefaultConfig.showdate),
     timeformat |-> MergeStr(d, "timeformat", DefaultConfig.timeformat),
     use_colors |-> MergeBool(d, "use_colors", DefaultConfig.use_colors)]

\* write_all at offset 0 of a handle opened by File::create: onto an empty
\* file the text written; onto text another invocation wrote since, the text
\* written followed by what remains of the longer old text
WriteResults(old, new) ==
    IF old = EmptyFile \/ old = Doc(new)
    THEN {Doc(new)}
    ELSE {Doc(new), Garbage}


(***************************************************************************)
(* JSON values (serde_json::Value) of the response body.                   *)
(***************************************************************************)
\* weather[0].main
JLabelAbsent == [t |-> "absent", s |-> ""]

JLabel(x) == [t |-> "string", s |-> x]

JLabelNumber == [t |-> "number", s |-> ""]

\* main.temp and wind.speed: n is the number in thousandths
JNumAbsent == [t |-> "absent", n |-> 0]

JNumString == [t |-> "string", n |-> 0]

JNum(x) == [t |-> "number", n |-> x]

\* sys.sunrise and sys.sunset: the integer 86400*d + s
JTimeAbsent == [t |-> "absent", d |-> 0, s |-> 0]

JTimeString == [t |-> "string", d |-> 0, s |-> 0]

JTimeFloat == [t |-> "float", d |-> 0, s |-> 0]

JTime(days, secs) == [t |-> "int", d |-> days, s |-> secs]

\* an integer timestamp small enough to be written as one number
JTimestamp(x) == JTime(x \div 86400, x % 86400)

\* .as_str().unwrap_or("Unknown")
ExtractLabel(j) == IF j.t = "string" THEN j.s ELSE "Unknown"

\* .as_f64().unwrap_or(0.0)
ExtractF64(j) == IF j.t = "number" THEN j.n ELSE 0

\* .as_i64().unwrap_or(0)
ExtractI64(j) == IF j.t = "int" THEN [d |-> j.d, s |-> j.s] ELSE [d |-> 0, s |-> 0]

(***************************************************************************)
(* Numbers and times as text.                                              *)
(***************************************************************************)
Digits == <<"0", "1", "2", "3", "4", "5", "6", "7", "8", "9">>

RECURSIVE NatStr(_)
NatStr(n) == IF n < 10 THEN Digits[n + 1] ELSE NatStr(n \div 10) \o Digits[(n % 10) + 1]

\* two digits, zero-padded
D2(n) == Digits[(n \div 10) + 1] \o Digits[(n % 10) + 1]

\* format!("{:.1}", x) of the number x (in thousandths): the nearest tenth, a
\* tie to the even digit, the sign kept
Fmt1(x) ==
    LET a == IF x < 0 THEN 0 - x ELSE x
        q == a \div 100
        r == a % 100
        tenths == IF r > 50 \/ (r = 50 /\ q % 2 = 1) THEN q + 1 ELSE q
    IN  (IF x < 0 THEN "-" ELSE "") \o NatStr(tenths \div 10) \o "."
            \o Digits[(tenths % 10) + 1]

\* chrono's DateTime<Utc> range in days since 1970-01-01: -262144-01-01 to
\* +262143-12-31 (timestamps -8334632851200 to 8210298412799)
MIN_DAYS == -96465658

MAX_DAYS == 95026601

\* Utc.timestamp_opt(t, 0): a single result inside chrono's range, None outside
TimestampOk(ts) == MIN_DAYS <= ts.d /\ ts.d <= MAX_DAYS

\* DateTime + Duration::hours(h), before the range check
AddHours(dt, h) ==
    LET total == dt.s + (h % 24) * 3600
    IN  [d |-> dt.d + (h \div 24) + (total \div 86400), s |-> total % 86400]

\* DateTime - Duration::hours(h)
SubHours(dt, h) == AddHours(dt, 0 - h)

\* a slip in the adjustment: both offsets added
AdjustAddsBoth(dt, c) == AddHours(AddHours(dt, c.timeplus), c.timeminus)

\* sunrise_datetime + Duration::hours(timeplus) - Duration::hours(timeminus)
Adjust(dt, c) == SubHours(AddHours(dt, c.timeplus), c.timeminus)

\* both operators panic when their result leaves the range
AdjustOk(dt, c) ==
    /\ TimestampOk(AddHours(dt, c.timeplus))
    /\ TimestampOk(Adjust(dt, c))

\* the match on config.timeformat and DateTime::format
Hour12(h) == IF h % 12 = 0 THEN 12 ELSE h % 12

FormatTime(dt, timeformat) ==
    LET h == dt.s \div 3600
        m == (dt.s % 3600) \div 60
    IN  IF timeformat = "12"
        THEN D2(Hour12(h)) \o ":" \o D2(m) \o (IF h < 12 THEN " AM" ELSE " PM")
        ELSE D2(h) \o ":" \o D2(m)

\* the two matches on config.units
WindUnit(units) ==
    CASE units = "metric" -> "m/s"
      [] units = "imperial" -> "mph"
      [] OTHER -> "m/s"

\* a slip in the second match: the fallback arm copied from the first
TempUnitNoKelvin(units) ==
    CASE units = "metric" -> "<deg>C"
      [] units = "imperial" -> "<deg>F"
      [] OTHER -> "<deg>C"

TempUnit(units) ==
    CASE units = "metric" -> "<deg>C"
      [] units = "imperial" -> "<deg>F"
      [] OTHER -> "K"

(***************************************************************************)
(* colored: a styled string is written as escape code, text, reset when    *)
(* colorization is on, and as the text alone when it is off.               *)
(***************************************************************************)
Styled(text, code) ==
    IF colorize THEN "\\x1B[" \o code \o "m" \o text \o "\\x1B[0m" ELSE text

\* if config.use_colors { text.<color>().to_string() } else { text }
Paint(c, text, code) == IF c.use_colors THEN Styled(text, code) ELSE text


(***************************************************************************)
(* The report: the match on the condition label and its six templates.     *)
(***************************************************************************)
\* a slip in the match: the last label misspelt
ArmMisspelt(weather) ==
    CASE weather = "Clear" -> "Clear"
      [] weather = "Clouds" -> "Clouds"
      [] weather = "Rain" -> "Rain"
      [] weather = "Snow" -> "Snow"
      [] weather = "Thundestorm" -> "Thunderstorm"
      [] OTHER -> "_"

\* the arm of `match weather` taken: a label of its own, or "_"
Arm(weather) ==
    CASE weather = "Clear" -> "Clear"
      [] weather = "Clouds" -> "Clouds"
      [] weather = "Rain" -> "Rain"
      [] weather = "Snow" -> "Snow"
      [] weather = "Thunderstorm" -> "Thunderstorm"
      [] OTHER -> "_"

\* the text of each template before its slots, line by line
Art(arm) ==
    CASE arm = "Clear" ->
           <<"             ",
             "   \\   /     ",
             "    .-.      ",
             " - (   ) -   ",
             "    '-'      ",
             "   /   \\     ",
             "             ">>
      [] arm = "Clouds" ->
           <<"               ",
             "     .--.      ",
             "  .-(    ).    ",
             " (___.__)__)   ",
             "               ",
             "               ",
             "               ">>
      [] arm = "Rain" ->
           <<"               ",
             "     .--.      ",
             "  .-(    ).    ",
             " (___.__)__)   ",
             "  ',',',','    ",
             "               ",
             "               ">>
      [] arm = "Snow" ->
           <<"               ",
             "     .--.      ",
             "  .-(    ).    ",
             " (___.__)__)   ",
             "   * * * *     ",
             "  * * * *      ",
             "               ">>
      [] arm = "Thunderstorm" ->
           <<"               ",
             "     .--.      ",
             "  .-(    ).    ",
             " (___.__)__)   ",
             "    /_  /_     ",
             "     /  /      ",
             "               ">>
      [] OTHER ->
           <<"               ",
             "     .--.      ",
             "  .-(    ).    ",
             " (___.__)__)   ",
             "               ",
             "               ",
             "               ">>

\* the condition text of each arm
CondText(arm, weather) ==
    CASE arm = "Clear" -> "Weather: clear"
      [] arm = "Clouds" -> "Weather: cloudy"
      [] arm = "Rain" -> "Weather: rainy"
      [] arm = "Snow" -> "Weather: snowy"
      [] arm = "Thunderstorm" -> "Weather: thundery"
      [] OTHER -> "Weather: " \o weather

\* its style
CondCode(arm) ==
    CASE arm = "Clear" -> "1;33"
      [] arm = "Clouds" -> "1;35"
      [] arm = "Rain" -> "1;34"
      [] arm = "Snow" -> "1;35"
      [] arm = "Thunderstorm" -> "1;30"
      [] OTHER -> "1;31"

\* the style of the date label and value: cyan under Clouds, white elsewhere
DateCode(arm) == IF arm = "Clouds" THEN "36" ELSE "37"

\* now.format("%x") at the time of the invocation
Today == "11/04/26"

\* date, date_label, date_value
DateLabel(c) == IF c.showdate THEN "Date: " ELSE ""

DateValue(c) == IF c.showdate THEN Today ELSE ""

\* the first argument of every format!: the city slot
CitySlot(c) ==
    IF c.use_colors /\ c.showcityname THEN Styled("City: " \o c.city, "1;32")
    ELSE IF c.showcityname THEN "City: " \o c.city
    ELSE ""

\* the last two arguments of every format!: the date slots
DateLabelSlot(c, arm) == Paint(c, DateLabel(c), DateCode(arm))

DateValueSlot(c, arm) == Paint(c, DateValue(c), DateCode(arm))

\* temp_str and wind_speed_str
TempStr(c, temp) ==
    Paint(c, "Temperature: " \o Fmt1(temp) \o TempUnit(c.units), "31")

WindSpeedStr(c, wind) ==
    Paint(c, "Wind speed: " \o Fmt1(wind) \o " " \o WindUnit(c.units), "36")

\* the eight arguments of the arm's format!
Slots(c, l) ==
    LET arm == Arm(l.weather)
    IN  <<CitySlot(c),
          Paint(c, CondText(arm, l.weather), CondCode(arm)),
          l.temp_str,
          l.wind_speed_str,
          Paint(c, "Sunrise: " \o l.sunrisestring, "33"),
          Paint(c, "Sunset: " \o l.sunsetstring, "34"),
          DateLabelSlot(c, arm),
          DateValueSlot(c, arm)>>

\* output, as the lines println! writes
Output(c, l) ==
    LET art == Art(Arm(l.weather))
        sl == Slots(c, l)
    IN  [i \in 1..7 |->
            IF i < 7 THEN art[i] \o sl[i] ELSE art[7] \o sl[7] \o sl[8]]

ConfigPath == "~/.config/thundery/thundery.toml"

InfoLine == "No config detected, config made at " \o ConfigPath \o "."

DiagLine ==
    "Failed to fetch weather data: Your API key and/or city name are missing from the config file, if they aren't missing, check the spelling of your city here https://openweathermap.org/"


(***************************************************************************)
(* One invocation, step by step.                                           *)
(***************************************************************************)
NoLoc ==
    [weather |-> "", temp |-> 0, wind_speed |-> 0,
     sunrise |-> [d |-> 0, s |-> 0], sunset |-> [d |-> 0, s |-> 0],
     temp_str |-> "", wind_speed_str |-> "",
     sunrisestring |-> "", sunsetstring |-> "",
     slots |-> <<>>, output |-> <<>>]

Running(q) == pc[q] \notin {"idle", "done", "fatal"}

Ended(q) == pc[q] \in {"done", "fatal"}

\* a panic: .expect(..) or .unwrap() on a failure
Panic(p, msg) ==
    /\ pc' = [pc EXCEPT ![p] = "fatal"]
    /\ stderr' = [stderr EXCEPT ![p] = Append(@, "thread 'main' panicked: " \o msg)]
    /\ log' = [log EXCEPT ![p] = Append(@, "fatal")]

\* the user runs the program; without `concurrent`, only when no other run is going
Start(p) ==
    /\ pc[p] = "idle"
    /\ p <= launches
    /\ \A q \in Procs : q < p => pc[q] # "idle"
    /\ concurrent \/ \A q \in Procs : ~Running(q)
    /\ pc' = [pc EXCEPT ![p] = "path"]
    /\ overlap' = (overlap \/ \E q \in Procs : Running(q))
    /\ UNCHANGED <<disk, provider, colorize, concurrent, launches, orig,
                   content, config, loc, stdout, stderr, log>>

\* home_dir() / the path pushes
ResolvePath(p) ==
    /\ pc[p] = "path"
    /\ pc' = [pc EXCEPT ![p] = "exists"]
    /\ UNCHANGED <<disk, provider, colorize, concurrent, launches, orig, overlap,
                   content, config, loc, stdout, stderr, log>>

\* if !config_path.exists()
CheckExists(p) ==
    /\ pc[p] = "exists"
    /\ pc' = [pc EXCEPT ![p] = IF disk.kind = "absent" THEN "mkdir" ELSE "read"]
    /\ UNCHANGED <<disk, provider, colorize, concurrent, launches, orig, overlap,
                   content, config, loc, stdout, stderr, log>>

\* Config::default(), toml::to_string, fs::create_dir_all
CreateDir(p) ==
    /\ pc[p] = "mkdir"
    /\ pc' = [pc EXCEPT ![p] = "create_default"]
    /\ UNCHANGED <<disk, provider, colorize, concurrent, launches, orig, overlap,
                   content, config, loc, stdout, stderr, log>>

\* File::create(&config_path): the file exists and is empty
CreateDefault(p) ==
    /\ pc[p] = "create_default"
    /\ disk' = EmptyFile
    /\ pc' = [pc EXCEPT ![p] = "write_default"]
    /\ log' = [log EXCEPT ![p] = Append(@, "create")]
    /\ UNCHANGED <<provider, colorize, concurrent, launches, orig, overlap,
                   content, config, loc, stdout, stderr>>

\* file.write_all(toml_string.as_bytes())
WriteDefault(p) ==
    /\ pc[p] = "write_default"
    /\ disk' \in WriteResults(disk, Serialize(DefaultConfig))
    /\ pc' = [pc EXCEPT ![p] = "announce"]
    /\ log' = [log EXCEPT ![p] = Append(@, "write")]
    /\ UNCHANGED <<provider, colorize, concurrent, launches, orig, overlap,
                   content, config, loc, stdout, stderr>>

\* println!("No config detected, ..."); return default_config
Announce(p) ==
    /\ pc[p] = "announce"
    /\ stdout' = [stdout EXCEPT ![p] = Append(@, InfoLine)]
    /\ config' = [config EXCEPT ![p] = DefaultConfig]
    /\ pc' = [pc EXCEPT ![p] = "request"]
    /\ log' = [log EXCEPT ![p] = Append(@, "return")]
    /\ UNCHANGED <<disk, provider, colorize, concurrent, launches, orig, overlap,
                   content, loc, stderr>>

\* fs::read_to_string(&config_path)
ReadFile(p) ==
    /\ pc[p] = "read"
    /\ disk.kind # "absent"
    /\ content' = [content EXCEPT ![p] = disk]
    /\ pc' = [pc EXCEPT ![p] = "parse"]
    /\ log' = [log EXCEPT ![p] = Append(@, "read")]
    /\ UNCHANGED <<disk, provider, colorize, concurrent, launches, orig, overlap,
                   config, loc, stdout, stderr>>

\* the strict parse, and on its failure the loose parse and the merge
Parse(p) ==
    /\ pc[p] = "parse"
    /\ IF StrictOk(content[p])
       THEN /\ config' = [config EXCEPT ![p] = StrictConfig(content[p])]
            /\ pc' = [pc EXCEPT ![p] = "request"]
            /\ log' = [log EXCEPT ![p] = Append(@, "return")]
       ELSE IF LooseOk(content[p])
       THEN /\ config' = [config EXCEPT ![p] = Merge(content[p].doc)]
            /\ pc' = [pc EXCEPT ![p] = "create_merged"]
            /\ log' = log
       ELSE /\ config' = [config EXCEPT ![p] = DefaultConfig]
            /\ pc' = [pc EXCEPT ![p] = "request"]
            /\ log' = [log EXCEPT ![p] = Append(@, "return")]
    /\ UNCHANGED <<disk, provider, colorize, concurrent, launches, orig, overlap,
                   content, loc, stdout, stderr>>

\* toml::to_string(&default_config), File::create(&config_path)
CreateMerged(p) ==
    /\ pc[p] = "create_merged"
    /\ disk' = EmptyFile
    /\ pc' = [pc EXCEPT ![p] = "write_merged"]
    /\ log' = [log EXCEPT ![p] = Append(@, "create")]
    /\ UNCHANGED <<provider, colorize, concurrent, launches, orig, overlap,
                   content, config, loc, stdout, stderr>>

\* a slip in the rewrite: the defaults serialized in place of the merged record
WriteMergedDefaults(p) ==
    /\ pc[p] = "write_merged"
    /\ disk' \in WriteResults(disk, Serialize(DefaultConfig))
    /\ pc' = [pc EXCEPT ![p] = "request"]
    /\ log' = [log EXCEPT ![p] = Append(Append(@, "write"), "return")]
    /\ UNCHANGED <<provider, colorize, concurrent, launches, orig, overlap,
                   content, config, loc, stdout, stderr>>

\* file.write_all(toml_string.as_bytes()); return default_config
WriteMerged(p) ==
    /\ pc[p] = "write_merged"
    /\ disk' \in WriteResults(disk, Serialize(config[p]))
    /\ pc' = [pc EXCEPT ![p] = "request"]
    /\ log' = [log EXCEPT ![p] = Append(Append(@, "write"), "return")]
    /\ UNCHANGED <<provider, colorize, concurrent, launches, orig, overlap,
                   content, config, loc, stdout, stderr>>

\* the .expect(..) of home_dir, create_dir_all, File::create and read_to_string:
\* the file system refuses the operation and the program panics.  (write_all on a
\* file just created is taken to succeed.)
FsPcs == {"path", "mkdir", "create_default", "read", "create_merged"}

FsMessage(at) ==
    CASE at = "path" -> "Failed to get home directory"
      [] at = "mkdir" -> "Failed to create config directory"
      [] at = "read" -> "Failed to read config file"
      [] OTHER -> "Failed to create config file"

FsError(p) ==
    /\ pc[p] \in FsPcs
    /\ Panic(p, FsMessage(pc[p]))
    /\ UNCHANGED <<disk, provider, colorize, concurrent, launches, orig, overlap,
                   content, config, loc, stdout>>

\* format!(url), get(&url).expect("Failed to send request")
SendRequest(p) ==
    /\ pc[p] = "request"
    /\ IF provider.net
       THEN /\ pc' = [pc EXCEPT ![p] = "status"]
            /\ log' = [log EXCEPT ![p] = Append(@, "request")]
            /\ stderr' = stderr
       ELSE /\ pc' = [pc EXCEPT ![p] = "fatal"]
            /\ log' = [log EXCEPT ![p] = Append(Append(@, "request"), "fatal")]
            /\ stderr' = [stderr EXCEPT ![p] =
                            Append(@, "thread 'main' panicked: Failed to send request")]
    /\ UNCHANGED <<disk, provider, colorize, concurrent, launches, orig, overlap,
                   content, config, loc, stdout>>

\* a slip in the failure branch: println! in place of eprintln!
CheckStatusPrintln(p) ==
    /\ pc[p] = "status"
    /\ IF provider.success
       THEN /\ pc' = [pc EXCEPT ![p] = "json"]
            /\ UNCHANGED <<stdout, log>>
       ELSE /\ pc' = [pc EXCEPT ![p] = "done"]
            /\ stdout' = [stdout EXCEPT ![p] = Append(@, DiagLine)]
            /\ log' = [log EXCEPT ![p] = Append(@, "diag")]
    /\ UNCHANGED <<disk, provider, colorize, concurrent, launches, orig, overlap,
                   content, config, loc, stderr>>

\* a slip in the failure branch: the diagnostic printed without the else, so
\* that the run goes on to the body
CheckStatusFallsThrough(p) ==
    /\ pc[p] = "status"
    /\ pc' = [pc EXCEPT ![p] = "json"]
    /\ IF provider.success
       THEN UNCHANGED <<stderr, log>>
       ELSE /\ stderr' = [stderr EXCEPT ![p] = Append(@, DiagLine)]
            /\ log' = [log EXCEPT ![p] = Append(@, "diag")]
    /\ UNCHANGED <<disk, provider, colorize, concurrent, launches, orig, overlap,
                   content, config, loc, stdout>>

\* if response.status().is_success() { .. } else { eprintln!(..) }
CheckStatus(p) ==
    /\ pc[p] = "status"
    /\ IF provider.success
       THEN /\ pc' = [pc EXCEPT ![p] = "json"]
            /\ UNCHANGED <<stderr, log>>
       ELSE /\ pc' = [pc EXCEPT ![p] = "done"]
            /\ stderr' = [stderr EXCEPT ![p] = Append(@, DiagLine)]
            /\ log' = [log EXCEPT ![p] = Append(@, "diag")]
    /\ UNCHANGED <<disk, provider, colorize, concurrent, launches, orig, overlap,
                   content, config, loc, stdout>>

\* response.json().expect("Failed to parse JSON"), the five fields, the unit
\* labels, temp_str and wind_speed_str
Extract(p) ==
    /\ pc[p] = "json"
    /\ IF provider.json
       THEN LET temp == ExtractF64(provider.body.temp)
                wind == ExtractF64(provider.body.wind)
            IN  /\ loc' = [loc EXCEPT ![p] =
                     [@ EXCEPT !.weather = ExtractLabel(provider.body.weather),
                               !.temp = temp,
                               !.wind_speed = wind,
                               !.sunrise = ExtractI64(provider.body.sunrise),
                               !.sunset = ExtractI64(provider.body.sunset),
                               !.temp_str = TempStr(config[p], temp),
                               !.wind_speed_str = WindSpeedStr(config[p], wind)]]
                /\ pc' = [pc EXCEPT ![p] = "times"]
                /\ UNCHANGED <<stderr, log>>
       ELSE /\ Panic(p, "Failed to parse JSON")
            /\ loc' = loc
    /\ UNCHANGED <<disk, provider, colorize, concurrent, launches, orig, overlap,
                   content, config, stdout>>

\* Utc.timestamp_opt(..).unwrap(), the two adjustments, the two format calls
ConvertTimes(p) ==
    /\ pc[p] = "times"
    /\ IF /\ TimestampOk(loc[p].sunrise)
          /\ TimestampOk(loc[p].sunset)
          /\ AdjustOk(loc[p].sunrise, config[p])
          /\ AdjustOk(loc[p].sunset, config[p])
       THEN /\ loc' = [loc EXCEPT ![p] =
                 [@ EXCEPT !.sunrisestring =
                               FormatTime(Adjust(loc[p].sunrise, config[p]),
                                          config[p].timeformat),
                           !.sunsetstring =
                               FormatTime(Adjust(loc[p].sunset, config[p]),
                                          config[p].timeformat)]]
            /\ pc' = [pc EXCEPT ![p] = "render"]
            /\ UNCHANGED <<stderr, log>>
       ELSE /\ Panic(p, IF TimestampOk(loc[p].sunrise) /\ TimestampOk(loc[p].sunset)
                        THEN "DateTime + Duration overflowed"
                        ELSE "called Option::unwrap() on a None value")
            /\ loc' = loc
    /\ UNCHANGED <<disk, provider, colorize, concurrent, launches, orig, overlap,
                   content, config, stdout>>

\* date, date_label, date_value, the match on weather, println!("{}", output)
Render(p) ==
    /\ pc[p] = "render"
    /\ LET out == Output(config[p], loc[p])
       IN  /\ loc' = [loc EXCEPT ![p] =
                 [@ EXCEPT !.slots = Slots(config[p], loc[p]), !.output = out]]
           /\ stdout' = [stdout EXCEPT ![p] = @ \o out]
    /\ pc' = [pc EXCEPT ![p] = "done"]
    /\ log' = [log EXCEPT ![p] = Append(@, "report")]
    /\ UNCHANGED <<disk, provider, colorize, concurrent, launches, orig, overlap,
                   content, config, stderr>>

Next ==
    \E p \in Procs :
        \/ Start(p)
        \/ ResolvePath(p)
        \/ CheckExists(p)
        \/ CreateDir(p)
        \/ CreateDefault(p)
        \/ WriteDefault(p)
        \/ Announce(p)
        \/ ReadFile(p)
        \/ Parse(p)
        \/ CreateMerged(p)
        \/ WriteMerged(p)
        \/ FsError(p)
        \/ SendRequest(p)
        \/ CheckStatus(p)
        \/ Extract(p)
        \/ ConvertTimes(p)
        \/ Render(p)


(***************************************************************************)
(* Initial states: the config file the user left, what the provider will   *)
(* answer, the terminal, and how the program is launched.                  *)
(***************************************************************************)
\* the largest hour offset of the sampled configs
MaxOffset == 3

Body(w, t, v, sr, ss) ==
    [weather |-> w, temp |-> t, wind |-> v, sunrise |-> sr, sunset |-> ss]

\* the response of the end-to-end example
ExampleBody ==
    Body(JLabel("Rain"), JNum(15500), JNum(4200),
         JTimestamp(1700000000), JTimestamp(1700040000))

NoBody == Body(JLabelAbsent, JNumAbsent, JNumAbsent, JTimeAbsent, JTimeAbsent)

\* the request cannot be sent / a non-2xx status / a 2xx body that is not JSON
NetDown == [net |-> FALSE, success |-> FALSE, json |-> FALSE, body |-> NoBody]

Refused == [net |-> TRUE, success |-> FALSE, json |-> FALSE, body |-> NoBody]

BadJson == [net |-> TRUE, success |-> TRUE, json |-> FALSE, body |-> NoBody]

Answer(b) == [net |-> TRUE, success |-> TRUE, json |-> TRUE, body |-> b]

Failures == {NetDown, Refused, BadJson}

\* a config the user wrote in full
UserConfig ==
    [api_key |-> "k3y", city |-> "Testville", units |-> "imperial",
     timeplus |-> 3, timeminus |-> 1,
     showcityname |-> TRUE, showdate |-> TRUE,
     timeformat |-> "12", use_colors |-> TRUE]

\* the config of the end-to-end example
ExampleConfig ==
    [api_key |-> "k3y", city |-> "Testville", units |-> "metric",
     timeplus |-> 0, timeminus |-> 0,
     showcityname |-> TRUE, showdate |-> FALSE,
     timeformat |-> "24", use_colors |-> FALSE]

\* a value of the wrong type for key k: an integer for a string, a string or a
\* float for an integer, a string for a boolean
IllTyped(k) ==
    IF k \in StrKeys THEN TInt(5)
    ELSE IF k = "timeplus" THEN TStr("3")
    ELSE IF k = "timeminus" THEN TFloat(3)
    ELSE TStr("true")

\* the table in which key k is absent (0), holds the user's well-typed value (1)
\* or holds a value of the wrong type (2)
Choice(k, c) ==
    CASE c = 0 -> NoVal
      [] c = 1 -> Serialize(UserConfig)[k]
      [] OTHER -> IllTyped(k)

Table(ch, other) ==
    [k \in AllKeys |-> IF k \in Keys THEN Choice(k, ch[k]) ELSE other]

\* the most keys in which a sampled table differs from a complete one, and the
\* most keys a sampled sparse table holds
MaxEdits == 3

\* the tables that differ from the user's complete table in at most MaxEdits keys
\* (absent, or of the wrong type) and the tables that hold at most MaxEdits keys
\* (well or ill typed), each with and without an unrecognized key
AllTables ==
    {Table(ch, other) :
        ch \in {c \in [Keys -> 0..2] :
                  \/ Cardinality({k \in Keys : c[k] # 1}) <= MaxEdits
                  \/ Cardinality({k \in Keys : c[k] # 0}) <= MaxEdits},
        other \in {NoVal, TStr("dark")}}

\* a complete file, one key dropped
Without(c, k) == [Serialize(c) EXCEPT ![k] = NoVal]

\* a complete file, one key of the wrong type
Mistyped(c, k) == [Serialize(c) EXCEPT ![k] = IllTyped(k)]

SomeFiles ==
    {Absent, Garbage, EmptyFile,
     Doc(Serialize(UserConfig)), Doc(Serialize(ExampleConfig)),
     Doc([Serialize(UserConfig) EXCEPT !["theme"] = TStr("dark")]),
     Doc(Without(UserConfig, "use_colors")),
     Doc(Without(UserConfig, "showdate")),
     Doc(Without(ExampleConfig, "timeformat")),
     Doc(Mistyped(UserConfig, "timeplus")),
     Doc([Without(UserConfig, "units") EXCEPT !["theme"] = TInt(1)])}

InitOf(Files, Providers, Colorizes, Concurrents, Launches) ==
    /\ disk \in Files
    /\ provider \in Providers
    /\ colorize \in Colorizes
    /\ concurrent \in Concurrents
    /\ launches \in Launches
    /\ orig = disk
    /\ overlap = FALSE
    /\ pc = [p \in Procs |-> "idle"]
    /\ content = [p \in Procs |-> Absent]
    /\ config = [p \in Procs |-> DefaultConfig]
    /\ loc = [p \in Procs |-> NoLoc]
    /\ stdout = [p \in Procs |-> <<>>]
    /\ stderr = [p \in Procs |-> <<>>]
    /\ log = [p \in Procs |-> <<>>]

\* a response whose sunrise lies outside chrono's range
FarBody ==
    Body(JLabel("Clear"), JNum(15500), JNum(4200),
         JTime(MAX_DAYS + 1, 0), JTimestamp(1700040000))

\* runs one after another
Init ==
    InitOf(SomeFiles,
           Failures \cup {Answer(ExampleBody), Answer(NoBody), Answer(FarBody)},
           BOOLEAN, {FALSE}, 1..NumRuns)

Spec == Init /\ [][Next]_vars

\* one run, over every table
InitConfig ==
    InitOf({Doc(t) : t \in AllTables} \cup {Absent, Garbage},
           {Refused, Answer(ExampleBody)},
           {TRUE}, {FALSE}, {1})

SpecConfig == InitConfig /\ [][Next]_vars


\* one run, over the time zone offsets, the time formats and the timestamps
Offsets == ((0 - MaxOffset)..MaxOffset) \cup {26}

TimeFormats == {"12", "24", "am/pm"}

TimeSamples ==
    {JTimestamp(1700000000), JTimestamp(1700040000), JTimestamp(0), JTimestamp(-1),
     JTime(19675, 43200), JTime(19675, 300), JTime(MAX_DAYS, 86399),
     JTime(MAX_DAYS + 1, 0), JTime(MIN_DAYS - 1, 86399),
     JTimeAbsent, JTimeString, JTimeFloat}

InitTimes ==
    InitOf({Doc(Serialize([ExampleConfig EXCEPT !.timeplus = tp, !.timeminus = tm,
                                                 !.timeformat = tf])) :
               tp \in Offsets, tm \in Offsets, tf \in TimeFormats}
             \cup {Absent, Doc(Without(UserConfig, "timeplus"))},
           {Answer(Body(JLabel("Clear"), JNum(15500), JNum(4200), sr, ss)) :
               sr \in TimeSamples, ss \in {JTimestamp(1700040000), JTimeAbsent}}
             \cup {Refused},
           {FALSE}, {FALSE}, {1})

SpecTimes == InitTimes /\ [][Next]_vars

\* one run, over the condition labels, the numbers, the units and the switches
Labels ==
    {JLabel(x) : x \in {"Clear", "Clouds", "Rain", "Snow", "Thunderstorm",
                        "Mist", "", "Unknown", "clear", "Thundestorm"}}
      \cup {JLabelAbsent, JLabelNumber}

Numbers ==
    {JNum(15500), JNum(15560), JNum(-3740), JNum(273160), JNumAbsent, JNumString}

UnitNames == {"metric", "imperial", "standard", ""}

InitTemplate ==
    InitOf({Doc(Serialize([ExampleConfig EXCEPT !.units = u, !.showcityname = sc,
                                                 !.showdate = sd, !.use_colors = uc])) :
               u \in UnitNames, sc \in BOOLEAN, sd \in BOOLEAN, uc \in BOOLEAN}
             \cup {Absent, Doc(Without(UserConfig, "units"))},
           {Answer(Body(w, t, JNum(4200), JTimestamp(1700000000), JTimestamp(1700040000))) :
               w \in Labels, t \in Numbers}
             \cup {Answer(Body(JLabel("Rain"), JNum(15500), v,
                               JTimestamp(1700000000), JTimestamp(1700040000))) :
                      v \in Numbers}
             \cup {Refused},
           BOOLEAN, {FALSE}, {1})

SpecTemplate == InitTemplate /\ [][Next]_vars

\* two runs that the user may launch at once
InitRace ==
    InitOf({Absent, Garbage, Doc(Serialize(UserConfig)),
            Doc(Without(UserConfig, "use_colors")),
            Doc(Mistyped(ExampleConfig, "timeplus"))},
           {Refused, Answer(ExampleBody)},
           {TRUE}, {TRUE}, {2})

SpecRace == InitRace /\ [][Next]_vars

(***************************************************************************)
(* Events of one invocation, read off its log.                             *)
(***************************************************************************)
Count(p, e) == Cardinality({i \in 1..Len(log[p]) : log[p][i] = e})

HasEvent(p, e) == Count(p, e) > 0

\* read_config has returned its Config to main
Returned(p) == HasEvent(p, "return")

\* the value a Config holds for key k, as a TOML value
Field(c, k) == Serialize(c)[k]

WellTyped(d, k) == d[k].t = ExpectedType(k)

(***************************************************************************)
(* C1.  For every config file that is a TOML table, read_config returns a  *)
(* record in which every field is the on-disk value when the key is        *)
(* present with the expected type and the built-in default otherwise;      *)
(* unrecognized keys have no effect (the record is a function of the nine  *)
(* recognized keys alone) and every field is defined.                      *)
(***************************************************************************)
C1_ReadConfigMerges ==
    \A p \in Procs :
        (Returned(p) /\ orig.kind = "doc") =>
            /\ \A k \in Keys :
                  Field(config[p], k) =
                      IF WellTyped(orig.doc, k) THEN orig.doc[k]
                      ELSE Field(DefaultConfig, k)
            /\ DOMAIN config[p] = Keys
            /\ \A k \in StrKeys : config[p][k] \in STRING
            /\ \A k \in IntKeys : config[p][k] \in Int
            /\ \A k \in BoolKeys : config[p][k] \in BOOLEAN

\* a table with an unrecognized key, an absent key, an ill-typed key and a
\* well-typed key has been loaded
C1_Witness ==
    \E p \in Procs :
        /\ Returned(p)
        /\ orig.kind = "doc"
        /\ orig.doc["theme"].t # "none"
        /\ \E k \in Keys : orig.doc[k].t = "none"
        /\ \E k \in Keys : orig.doc[k].t \notin {"none", ExpectedType(k)}
        /\ \E k \in Keys : WellTyped(orig.doc, k) /\ orig.doc[k] # Field(DefaultConfig, k)
        /\ config[p] # DefaultConfig

(***************************************************************************)
(* C2.  After read_config returns, whatever the file was (absent,          *)
(* complete, partial, malformed), the file on disk strictly parses to the  *)
(* record returned; a second read_config returns the same record and       *)
(* writes nothing.                                                         *)
(***************************************************************************)
C2_SelfHealComplete ==
    \A p \in Procs :
        Returned(p) =>
            /\ StrictOk(disk)
            /\ StrictConfig(disk) = config[p]
            /\ \A q \in Procs :
                  (q > p /\ Returned(q)) =>
                      (config[q] = config[p] /\ ~HasEvent(q, "write"))

\* the same, for the files the loose parse accepts and for the absent file
C2_HealsTables ==
    \A p \in Procs :
        (Returned(p) /\ orig # Garbage) =>
            /\ StrictOk(disk)
            /\ StrictConfig(disk) = config[p]
            /\ \A q \in Procs :
                  (q > p /\ Returned(q)) =>
                      (config[q] = config[p] /\ ~HasEvent(q, "write"))


(***************************************************************************)
(* C3.  In every run whose HTTP response status is not 2xx, nothing is     *)
(* written to standard output, exactly one diagnostic line is written to   *)
(* standard error and no report is printed, whatever the config file was,  *)
(* the first run without a config file included.                           *)
(***************************************************************************)
RefusedRun(p) == pc[p] = "done" /\ HasEvent(p, "request") /\ ~provider.success

C3_FailureIsSilentOnStdout ==
    \A p \in Procs :
        RefusedRun(p) =>
            /\ stdout[p] = <<>>
            /\ stderr[p] = <<DiagLine>>
            /\ ~HasEvent(p, "report")

\* C3, amended: on a run that found no config file, standard output holds the
\* one line read_config printed about the file it made, and nothing else; on
\* every other run it is empty.  Standard error holds the diagnostic alone and
\* no report is printed.
C3_FailureStdoutOnlyNotice ==
    \A p \in Procs :
        RefusedRun(p) =>
            /\ stdout[p] = IF HasEvent(p, "read") THEN <<>> ELSE <<InfoLine>>
            /\ stderr[p] = <<DiagLine>>
            /\ ~HasEvent(p, "report")
            /\ loc[p].output = <<>>

\* a refused first run (no config file) and a refused run with a config file
C3_Witness ==
    /\ \E p \in Procs : RefusedRun(p) /\ ~HasEvent(p, "read") /\ orig = Absent
    /\ \E p \in Procs : RefusedRun(p) /\ HasEvent(p, "read")

(***************************************************************************)
(* C4.  After a 2xx response whose body parses as JSON, each of the five   *)
(* fields that is absent or of the wrong type is replaced by its default   *)
(* ("Unknown", 0.0, 0.0, 0, 0) independently, and whatever the fields and  *)
(* the configured offsets are the run goes on to print a report: it never  *)
(* ends with a fatal error.                                                *)
(***************************************************************************)
Extracted(p) ==
    /\ HasEvent(p, "request")
    /\ provider.net /\ provider.success /\ provider.json
    /\ pc[p] \in {"times", "render", "done", "fatal"}

C4_FieldsNeverAbort ==
    \A p \in Procs :
        Extracted(p) =>
            /\ loc[p].weather =
                  IF provider.body.weather.t = "string"
                  THEN provider.body.weather.s ELSE "Unknown"
            /\ loc[p].temp =
                  IF provider.body.temp.t = "number" THEN provider.body.temp.n ELSE 0
            /\ loc[p].wind_speed =
                  IF provider.body.wind.t = "number" THEN provider.body.wind.n ELSE 0
            /\ loc[p].sunrise.d =
                  IF provider.body.sunrise.t = "int" THEN provider.body.sunrise.d ELSE 0
            /\ loc[p].sunset.d =
                  IF provider.body.sunset.t = "int" THEN provider.body.sunset.d ELSE 0
            /\ pc[p] # "fatal"
            /\ (pc[p] = "done" => HasEvent(p, "report"))

(***************************************************************************)
(* C9.  In every invocation the config file is read at most once and       *)
(* written at most once, every write of it comes before the HTTP request,  *)
(* at most one request is sent, and the run ends with exactly one of a     *)
(* report, the diagnostic and a fatal termination (never a report and the  *)
(* diagnostic together).                                                   *)
(***************************************************************************)
Before(p, a, b) ==
    \A i, j \in 1..Len(log[p]) : (log[p][i] = a /\ log[p][j] = b) => i < j

Endings(p) == Count(p, "report") + Count(p, "diag") + Count(p, "fatal")

C9_EventsOrderedAndBounded ==
    \A p \in Procs :
        /\ Count(p, "read") <= 1
        /\ Count(p, "write") <= 1
        /\ Count(p, "create") <= 1
        /\ Count(p, "request") <= 1
        /\ Before(p, "write", "request")
        /\ Before(p, "create", "request")
        /\ Before(p, "read", "write")
        /\ Endings(p) <= 1
        /\ (Ended(p) <=> Endings(p) = 1)
        /\ ~(HasEvent(p, "report") /\ HasEvent(p, "diag"))
        /\ (HasEvent(p, "report") <=> stdout[p] # <<>> /\ loc[p].output # <<>>)
        /\ (HasEvent(p, "diag") <=> \E i \in 1..Len(stderr[p]) : stderr[p][i] = DiagLine)

\* a run that read and rewrote the file, sent its request and printed a report,
\* and another that ended with a fatal error
C9_Witness ==
    /\ \E p \in Procs :
          /\ pc[p] = "done" /\ HasEvent(p, "report")
          /\ HasEvent(p, "read") /\ HasEvent(p, "write") /\ HasEvent(p, "request")
    /\ \E p \in Procs : pc[p] = "fatal"


(***************************************************************************)
(* What a report shows.                                                    *)
(***************************************************************************)
Reported(p) == HasEvent(p, "report")

\* the fields as the provider sent them, absent and ill-typed ones defaulted
SentLabel == IF provider.body.weather.t = "string" THEN provider.body.weather.s ELSE "Unknown"

SentNumber(j) == IF j.t = "number" THEN j.n ELSE 0

SentSecondOfDay(j) == IF j.t = "int" THEN j.s ELSE 0

StyleCodes == {"1;30", "1;31", "1;32", "1;33", "1;34", "1;35", "31", "33", "34", "36", "37"}

\* the slot is the text, bare or inside one style's escape codes
ShowsText(slot, text) ==
    \/ slot = text
    \/ \E code \in StyleCodes : slot = "\\x1B[" \o code \o "m" \o text \o "\\x1B[0m"

(***************************************************************************)
(* C5.  The rendered sunrise and sunset are the UTC time of day of the     *)
(* timestamp shifted by (timeplus - timeminus) hours, wrapping across      *)
(* midnight: as 12-hour hour:minute with an AM/PM marker when timeformat   *)
(* is "12", as zero-padded 24-hour HH:MM for every other timeformat.       *)
(* With offset (3,1) that is UTC + 2 hours; 1700000000 with offset (0,0)   *)
(* and timeformat "24" renders 22:13.                                      *)
(***************************************************************************)
\* minute of the day m as a 24-hour and as a 12-hour clock
Clock24(m) == D2(m \div 60) \o ":" \o D2(m % 60)

Clock12(m) ==
    D2((((m \div 60) + 11) % 12) + 1) \o ":" \o D2(m % 60)
        \o (IF m < 720 THEN " AM" ELSE " PM")

ShiftedMinute(secondOfDay, c) ==
    ((secondOfDay \div 60) + 60 * (c.timeplus - c.timeminus)) % 1440

ExpectedClock(j, c) ==
    IF c.timeformat = "12"
    THEN Clock12(ShiftedMinute(SentSecondOfDay(j), c))
    ELSE Clock24(ShiftedMinute(SentSecondOfDay(j), c))

C5_TimesShiftedAndFormatted ==
    \A p \in Procs :
        Reported(p) =>
            /\ loc[p].sunrisestring = ExpectedClock(provider.body.sunrise, config[p])
            /\ loc[p].sunsetstring = ExpectedClock(provider.body.sunset, config[p])
            /\ loc[p].slots[5] = "Sunrise: " \o loc[p].sunrisestring
            /\ loc[p].slots[6] = "Sunset: " \o loc[p].sunsetstring
            /\ (provider.body.sunrise = JTimestamp(1700000000) /\ config[p].timeformat = "24") =>
                  /\ (config[p].timeplus = 0 /\ config[p].timeminus = 0)
                        => loc[p].sunrisestring = "22:13"
                  /\ (config[p].timeplus = 3 /\ config[p].timeminus = 1)
                        => loc[p].sunrisestring = "00:13"
            /\ (provider.body.sunrise = JTimestamp(1700000000) /\ config[p].timeformat = "12"
                  /\ config[p].timeplus = 3 /\ config[p].timeminus = 1)
                  => loc[p].sunrisestring = "12:13 AM"

\* the example, shifted across midnight by offset (3,1), rendered on the
\* 12-hour clock
C5_Witness ==
    \E p \in Procs :
        /\ Reported(p)
        /\ provider.body.sunrise = JTimestamp(1700000000)
        /\ provider.body.sunset = JTimestamp(1700040000)
        /\ config[p].timeplus = 3 /\ config[p].timeminus = 1
        /\ config[p].timeformat = "12"
        /\ loc[p].sunrisestring = "12:13 AM"
        /\ loc[p].sunsetstring = "11:20 AM"

(***************************************************************************)
(* C6.  The condition labels "Clear", "Clouds", "Rain", "Snow" and         *)
(* "Thunderstorm", matched exactly, select their own pictogram and a fixed *)
(* condition word (clear, cloudy, rainy, snowy, thundery); every other     *)
(* label selects the generic cloud pictogram and is shown literally after  *)
(* "Weather: ".                                                            *)
(***************************************************************************)
Dedicated == {"Clear", "Clouds", "Rain", "Snow", "Thunderstorm"}

Word(label) ==
    IF label = "Clear" THEN "clear"
    ELSE IF label = "Clouds" THEN "cloudy"
    ELSE IF label = "Rain" THEN "rainy"
    ELSE IF label = "Snow" THEN "snowy"
    ELSE "thundery"

C6_TemplateByExactLabel ==
    \A p \in Procs :
        Reported(p) =>
            LET art == IF SentLabel \in Dedicated THEN Art(SentLabel) ELSE Art("_")
                text == IF SentLabel \in Dedicated
                        THEN "Weather: " \o Word(SentLabel)
                        ELSE "Weather: " \o SentLabel
            IN  /\ ShowsText(loc[p].slots[2], text)
                /\ Len(loc[p].output) = 7
                /\ \A i \in 1..6 : loc[p].output[i] = art[i] \o loc[p].slots[i]
                /\ loc[p].output[7] = art[7] \o loc[p].slots[7] \o loc[p].slots[8]
                /\ stdout[p] = (IF HasEvent(p, "read") THEN <<>> ELSE <<InfoLine>>)
                                  \o loc[p].output

\* a thunderstorm has been reported, in colors
C6_Witness ==
    \E p \in Procs :
        /\ Reported(p)
        /\ SentLabel = "Thunderstorm"
        /\ config[p].use_colors /\ colorize
        /\ loc[p].slots[2] = "\\x1B[1;30mWeather: thundery\\x1B[0m"
        /\ loc[p].output[5] = "    /_  /_     \\x1B[33mSunrise: 22:13\\x1B[0m"

(***************************************************************************)
(* C7.  Disabled fields are omitted in all six templates, with and without *)
(* use_colors: with showcityname false the city slot is the empty string;  *)
(* with showdate false the date label and the date value slots are the     *)
(* empty string, no color styling applied to them.                         *)
(***************************************************************************)
C7_DisabledFieldsEmpty ==
    \A p \in Procs :
        Reported(p) =>
            /\ config[p].showcityname = FALSE => loc[p].slots[1] = ""
            /\ config[p].showdate = FALSE =>
                  /\ loc[p].slots[7] = ""
                  /\ loc[p].slots[8] = ""
                  /\ loc[p].output[7] = Art(Arm(loc[p].weather))[7]

\* C7, for the city slot and for the runs that style nothing: what holds of
\* the code as it is
C7_DisabledFieldsEmptyUnstyled ==
    \A p \in Procs :
        Reported(p) =>
            /\ config[p].showcityname = FALSE => loc[p].slots[1] = ""
            /\ (config[p].showdate = FALSE /\ ~(config[p].use_colors /\ colorize)) =>
                  /\ loc[p].slots[7] = ""
                  /\ loc[p].slots[8] = ""

(***************************************************************************)
(* C8.  The unit labels are a function of config.units alone: "metric"     *)
(* gives "<deg>C" and "m/s", "imperial" gives "<deg>F" and "mph", every    *)
(* other value gives "K" and "m/s"; the temperature and the wind speed     *)
(* shown are the provider's numbers, not converted, whatever the units     *)
(* (printed with one decimal).                                             *)
(***************************************************************************)
Suffix(units) ==
    IF units = "metric" THEN "<deg>C" ELSE IF units = "imperial" THEN "<deg>F" ELSE "K"

Speed(units) == IF units = "imperial" THEN "mph" ELSE "m/s"

C8_UnitLabels ==
    \A p \in Procs :
        Reported(p) =>
            /\ ShowsText(loc[p].slots[3],
                         "Temperature: " \o Fmt1(SentNumber(provider.body.temp))
                             \o Suffix(config[p].units))
            /\ ShowsText(loc[p].slots[4],
                         "Wind speed: " \o Fmt1(SentNumber(provider.body.wind))
                             \o " " \o Speed(config[p].units))
            /\ (provider.body.temp = JNum(15500) /\ config[p].units = "metric"
                  /\ ~config[p].use_colors) => loc[p].slots[3] = "Temperature: 15.5<deg>C"
            /\ (provider.body.wind = JNum(4200) /\ config[p].units = "imperial"
                  /\ ~config[p].use_colors) => loc[p].slots[4] = "Wind speed: 4.2 mph"

\* a report in kelvin of a number sent with two decimals
C8_Witness ==
    \E p \in Procs :
        /\ Reported(p)
        /\ config[p].units = "standard"
        /\ provider.body.temp = JNum(273160)
        /\ loc[p].slots[3] = "Temperature: 273.2K"
        /\ loc[p].slots[4] = "Wind speed: 4.2 m/s"

(***************************************************************************)
(* C10.  When invocations run one after another the program never changes  *)
(* the on-disk value of a recognized, well-typed key; with two invocations *)
(* interleaved on the same file an update can be lost: one reads the file  *)
(* between the other's truncate and write, and the file ends with defaults *)
(* in place of the user's values.  So: once no invocation is running, a    *)
(* well-typed key whose on-disk value differs from the original shows that *)
(* invocations overlapped.                                                 *)
(***************************************************************************)
Quiescent == \A q \in Procs : ~Running(q)

Changed(k) == disk.kind # "doc" \/ disk.doc[k] # orig.doc[k]

=============================================================================
